---- MODULE Spec2Model ----
(***************************************************************************)
(* A model of the phased-array physics engine of backend/core/beamformer.py *)
(* (classes PhasedArray and BeamSystem).                                    *)
(*                                                                          *)
(* Numbers.  The program computes in float64.  The model computes in exact  *)
(* rational arithmetic: a rational is a pair <<n, d>> with d > 0 in lowest  *)
(* terms, so two equal numbers are equal values.  The wavenumber k is a     *)
(* multiple of pi: the field k of an array holds the rational k / pi.       *)
(* Angles are degrees.                                                      *)
(***************************************************************************)
EXTENDS Integers, Sequences, FiniteSets, TLC

VARIABLES heap, sys, profile, last, pre, steps

vars == <<heap, sys, profile, last, pre, steps>>

(***************************************************************************)
(* Bounds of the model.                                                     *)
(***************************************************************************)
MaxElements == 3
MaxSteps == 3
MaxArrays == 3
MaxDegrees == 540
GridResolution == 2

(***************************************************************************)
(* Exact rational arithmetic (the model's float).                           *)
(***************************************************************************)
Abs(i) == IF i < 0 THEN -i ELSE i

RECURSIVE GCD(_, _)
GCD(a, b) == IF b = 0 THEN a ELSE GCD(b, a % b)

Rat(n, d) ==
    LET g == GCD(Abs(n), Abs(d))
        s == IF d < 0 THEN -1 ELSE 1
    IN  <<(s * n) \div g, (s * d) \div g>>

R(i) == <<i, 1>>
RZero == <<0, 1>>
RAdd(a, b) == Rat(a[1] * b[2] + b[1] * a[2], a[2] * b[2])
RNeg(a) == <<-a[1], a[2]>>
RSub(a, b) == RAdd(a, RNeg(b))
RMul(a, b) ==
    LET x == Rat(a[1], b[2])
        y == Rat(b[1], a[2])
    IN  Rat(x[1] * y[1], x[2] * y[2])
RDiv(a, b) == RMul(a, Rat(b[2], b[1]))
RLess(a, b) == a[1] * b[2] < b[1] * a[2]
RLeq(a, b) == a[1] * b[2] <= b[1] * a[2]
RAbs(a) == <<Abs(a[1]), a[2]>>
RFloor(a) == a[1] \div a[2]
RIsInt(a) == a[2] = 1

(***************************************************************************)
(* numpy.linspace(start, stop, num): num evenly spaced samples, the first   *)
(* at start and (for num >= 2) the last at stop.                            *)
(***************************************************************************)
Linspace(start, stop, num) ==
    IF num = 1
    THEN <<start>>
    ELSE [i \in 1..num |->
            RAdd(start, RMul(R(i - 1), RDiv(RSub(stop, start), R(num - 1))))]

(***************************************************************************)
(* class PhasedArray                                                        *)
(***************************************************************************)
propagation_speed == 300000000
baseline_y == <<1, 5>>
TwoPiOverPi == 2

\* _recalculate_physics: wavelength, k and distance from _frequency and
\* spacing_factor.  The caller has checked that _frequency is not zero.
_recalculate_physics(self) ==
    LET wavelength == RDiv(R(propagation_speed), self._frequency)
    IN  [self EXCEPT !.wavelength = wavelength,
                     !.k = RDiv(R(TwoPiOverPi), wavelength),
                     !.distance = RMul(wavelength, self.spacing_factor)]

\* _generate_local_positions with the curved formula lacking its baseline.
_generate_local_positions_no_baseline(self) ==
    LET span == RMul(R(self.num_elements - 1), self.distance)
        half == RDiv(span, R(2))
        x_pos == Linspace(RNeg(half), half, self.num_elements)
    IN  [i \in 1..self.num_elements |->
            <<x_pos[i],
              IF self.geometry = "curved"
              THEN RMul(self.curvature, RMul(x_pos[i], x_pos[i]))
              ELSE RZero>>]

\* _generate_local_positions applying the curved formula to every array of
\* curvature > 0, whatever its geometry.
_generate_local_positions_ungated(self) ==
    LET span == RMul(R(self.num_elements - 1), self.distance)
        half == RDiv(span, R(2))
        x_pos == Linspace(RNeg(half), half, self.num_elements)
    IN  [i \in 1..self.num_elements |->
            <<x_pos[i],
              IF self.geometry = "curved" \/ RLess(RZero, self.curvature)
              THEN RAdd(baseline_y, RMul(self.curvature, RMul(x_pos[i], x_pos[i])))
              ELSE RZero>>]

\* _generate_local_positions: the (x, y) of every element from num_elements,
\* distance, geometry and curvature.
_generate_local_positions(self) ==
    LET span == RMul(R(self.num_elements - 1), self.distance)
        half == RDiv(span, R(2))
        x_pos == Linspace(RNeg(half), half, self.num_elements)
    IN  [i \in 1..self.num_elements |->
            <<x_pos[i],
              IF self.geometry = "curved"
              THEN RAdd(baseline_y, RMul(self.curvature, RMul(x_pos[i], x_pos[i])))
              ELSE RZero>>]

\* PhasedArray.__init__.  A frequency of zero makes the division in
\* _recalculate_physics raise ZeroDivisionError and no object is made; any
\* other frequency, negative ones included, is accepted.
PhasedArray_init(num_elements, geometry, curvature, frequency, position, spacing_factor) ==
    LET s0 == [num_elements |-> num_elements,
               geometry |-> geometry,
               curvature |-> curvature,
               position |-> position,
               spacing_factor |-> spacing_factor,
               _frequency |-> frequency,
               _steering_angle |-> RZero,
               wavelength |-> RZero,
               k |-> RZero,
               distance |-> RZero,
               freq_multipliers |-> <<>>,
               element_positions |-> <<>>]
    IN  IF frequency = RZero
        THEN [raised |-> "ZeroDivisionError", self |-> s0]
        ELSE LET s1 == _recalculate_physics(s0)
                 s2 == [s1 EXCEPT !.freq_multipliers = [i \in 1..num_elements |-> R(1)]]
             IN  [raised |-> "none",
                  self |-> [s2 EXCEPT !.element_positions = _generate_local_positions(s2)]]

\* The frequency setter with its check made after the assignment.
frequency_set_late_check(self, val) ==
    IF RLeq(val, RZero)
    THEN [raised |-> "ValueError", self |-> [self EXCEPT !._frequency = val]]
    ELSE LET s1 == _recalculate_physics([self EXCEPT !._frequency = val])
         IN  [raised |-> "none",
              self |-> [s1 EXCEPT !.element_positions = _generate_local_positions(s1)]]

\* The frequency setter leaving element_positions as they are.
frequency_set_keep_positions(self, val) ==
    IF RLeq(val, RZero)
    THEN [raised |-> "ValueError", self |-> self]
    ELSE [raised |-> "none",
          self |-> _recalculate_physics([self EXCEPT !._frequency = val])]

\* The frequency setter also setting every multiplier back to 1.0.
frequency_set_reset_multipliers(self, val) ==
    IF RLeq(val, RZero)
    THEN [raised |-> "ValueError", self |-> self]
    ELSE LET s1 == _recalculate_physics([self EXCEPT !._frequency = val])
             s2 == [s1 EXCEPT !.freq_multipliers = [i \in 1..self.num_elements |-> R(1)]]
         IN  [raised |-> "none",
              self |-> [s2 EXCEPT !.element_positions = _generate_local_positions(s2)]]

\* The frequency setter: rejects val <= 0 before it assigns anything.
frequency_set(self, val) ==
    IF RLeq(val, RZero)
    THEN [raised |-> "ValueError", self |-> self]
    ELSE LET s1 == _recalculate_physics([self EXCEPT !._frequency = val])
         IN  [raised |-> "none",
              self |-> [s1 EXCEPT !.element_positions = _generate_local_positions(s1)]]

\* Python's float %: x - m * floor(x / m), for m > 0.
RMod(x, m) == RSub(x, RMul(m, R(RFloor(RDiv(x, m)))))

\* The steering_angle setter with the other wrap, 180 - ((180 - val) % 360).
steering_angle_set_upper(self, val) ==
    [self EXCEPT !._steering_angle = RSub(R(180), RMod(RSub(R(180), val), R(360)))]

\* The steering_angle setter.
steering_angle_set(self, val) ==
    [self EXCEPT !._steering_angle = RSub(RMod(RAdd(val, R(180)), R(360)), R(180))]

\* int(idx_str) for a key given as its characters: an optional sign, then
\* decimal digits.
DigitValue(c) ==
    CASE c = "0" -> 0 [] c = "1" -> 1 [] c = "2" -> 2 [] c = "3" -> 3 [] c = "4" -> 4
      [] c = "5" -> 5 [] c = "6" -> 6 [] c = "7" -> 7 [] c = "8" -> 8 [] c = "9" -> 9

RECURSIVE DigitsValue(_, _)
DigitsValue(chars, acc) ==
    IF chars = <<>> THEN acc
    ELSE DigitsValue(Tail(chars), 10 * acc + DigitValue(Head(chars)))

ParseInt(chars) ==
    IF Head(chars) = "-" THEN -DigitsValue(Tail(chars), 0) ELSE DigitsValue(chars, 0)

\* offset.get(name, 0)
OffsetGet(offset, name) == IF name \in DOMAIN offset THEN offset[name] ELSE RZero

\* apply_offsets without the lower bound of its range check: a negative index
\* then counts from the end of the array, as numpy indexing does.
RECURSIVE apply_offsets_no_lower(_, _)
apply_offsets_no_lower(self, offsets) ==
    IF offsets = <<>> THEN self
    ELSE LET idx == ParseInt(Head(offsets)[1])
             offset == Head(offsets)[2]
             n == Len(self.element_positions)
             at == IF idx < 0 THEN idx + n + 1 ELSE idx + 1
             old == self.element_positions[at]
         IN  IF idx < n /\ at >= 1
             THEN apply_offsets_no_lower(
                    [self EXCEPT !.element_positions[at] =
                        <<RAdd(old[1], OffsetGet(offset, "x")),
                          RAdd(old[2], OffsetGet(offset, "y"))>>],
                    Tail(offsets))
             ELSE apply_offsets_no_lower(self, Tail(offsets))

\* apply_offsets: the entries of the dict in order; element idx of the
\* program is element idx + 1 of the model's sequence.
RECURSIVE apply_offsets(_, _)
apply_offsets(self, offsets) ==
    IF offsets = <<>> THEN self
    ELSE LET idx == ParseInt(Head(offsets)[1])
             offset == Head(offsets)[2]
         IN  IF 0 <= idx /\ idx < Len(self.element_positions)
             THEN LET old == self.element_positions[idx + 1]
                  IN  apply_offsets(
                        [self EXCEPT !.element_positions[idx + 1] =
                            <<RAdd(old[1], OffsetGet(offset, "x")),
                              RAdd(old[2], OffsetGet(offset, "y"))>>],
                        Tail(offsets))
             ELSE apply_offsets(self, Tail(offsets))

\* set_frequency_multipliers without the lower bound of its range check.
RECURSIVE set_frequency_multipliers_no_lower(_, _)
set_frequency_multipliers_no_lower(self, freq_map) ==
    IF freq_map = <<>> THEN self
    ELSE LET idx == ParseInt(Head(freq_map)[1])
             mult == Head(freq_map)[2]
             n == Len(self.freq_multipliers)
             at == IF idx < 0 THEN idx + n + 1 ELSE idx + 1
         IN  IF idx < self.num_elements /\ at >= 1 /\ at <= n
             THEN set_frequency_multipliers_no_lower(
                    [self EXCEPT !.freq_multipliers[at] = mult], Tail(freq_map))
             ELSE set_frequency_multipliers_no_lower(self, Tail(freq_map))

\* set_frequency_multipliers: the entries of the dict in order.
RECURSIVE set_frequency_multipliers(_, _)
set_frequency_multipliers(self, freq_map) ==
    IF freq_map = <<>> THEN self
    ELSE LET idx == ParseInt(Head(freq_map)[1])
             mult == Head(freq_map)[2]
         IN  IF 0 <= idx /\ idx < self.num_elements
             THEN set_frequency_multipliers(
                    [self EXCEPT !.freq_multipliers[idx + 1] = mult], Tail(freq_map))
             ELSE set_frequency_multipliers(self, Tail(freq_map))

(***************************************************************************)
(* Trigonometry.  An angle in radians is held as the rational angle / pi.   *)
(* The sine is evaluated exactly, and only at the angles where it is        *)
(* rational: the multiples of pi/2 and pi/6 +- a multiple of pi.            *)
(***************************************************************************)
Radians(deg) == RDiv(deg, R(180))
Degrees(rad) == RMul(rad, R(180))

ExactSineAngles == {R(0), Rat(1, 6), Rat(1, 2), Rat(5, 6), R(1), Rat(7, 6), Rat(3, 2), Rat(11, 6)}
HasExactSine(rad) == RMod(rad, R(2)) \in ExactSineAngles

\* numpy.sin
Sin(rad) ==
    LET t == RMod(rad, R(2))
    IN  CASE t \in {R(0), R(1)} -> R(0)
          [] t \in {Rat(1, 6), Rat(5, 6)} -> Rat(1, 2)
          [] t = Rat(1, 2) -> R(1)
          [] t \in {Rat(7, 6), Rat(11, 6)} -> Rat(-1, 2)
          [] t = Rat(3, 2) -> R(-1)

\* numpy.cos
Cos(rad) == Sin(RAdd(rad, Rat(1, 2)))

(***************************************************************************)
(* The values of sin and cos at the multiples of pi/4 are halves of numbers *)
(* a + b sqrt(2) with integers a, b, held as <<a, b>>.                       *)
(***************************************************************************)
SAdd(u, v) == <<u[1] + v[1], u[2] + v[2]>>
SSub(u, v) == <<u[1] - v[1], u[2] - v[2]>>
SMul(u, v) == <<u[1] * v[1] + 2 * u[2] * v[2], u[1] * v[2] + u[2] * v[1]>>
\* a + b sqrt(2) >= 0
SNonNeg(u) ==
    CASE u[1] >= 0 /\ u[2] >= 0 -> TRUE
      [] u[1] < 0 /\ u[2] < 0 -> FALSE
      [] u[1] >= 0 /\ u[2] < 0 -> u[1] * u[1] >= 2 * u[2] * u[2]
      [] u[1] < 0 /\ u[2] >= 0 -> 2 * u[2] * u[2] >= u[1] * u[1]
SLeq(u, v) == SNonNeg(SSub(v, u))
SZero == <<0, 0>>

\* 2 cos(m pi / 4) and 2 sin(m pi / 4)
TwiceCosEighth(m) ==
    CASE m % 8 = 0 -> <<2, 0>> [] m % 8 = 1 -> <<0, 1>> [] m % 8 = 2 -> <<0, 0>>
      [] m % 8 = 3 -> <<0, -1>> [] m % 8 = 4 -> <<-2, 0>> [] m % 8 = 5 -> <<0, -1>>
      [] m % 8 = 6 -> <<0, 0>> [] m % 8 = 7 -> <<0, 1>>
TwiceSinEighth(m) == TwiceCosEighth(m + 6)

RECURSIVE SSum(_)
SSum(seq) == IF seq = <<>> THEN SZero ELSE SAdd(Head(seq), SSum(Tail(seq)))

\* the floor of the square root of a natural number
RECURSIVE ISqrtIn(_, _, _)
ISqrtIn(n, lo, hi) ==
    IF lo = hi THEN lo
    ELSE LET mid == (lo + hi + 1) \div 2
         IN  IF mid * mid <= n THEN ISqrtIn(n, mid, hi) ELSE ISqrtIn(n, lo, mid - 1)
ISqrt(n) == ISqrtIn(n, 0, IF n < 46340 THEN n ELSE 46340)

\* floor(sqrt(x) + b) for rationals x >= 0 and b
FloorSqrtPlus(x, b) ==
    (ISqrt(b[2] * b[2] * x[1] * x[2]) + b[1] * x[2]) \div (b[2] * x[2])

(***************************************************************************)
(* PhasedArray: the field computations.  steering_delay is delay_rad / pi.  *)
(***************************************************************************)
get_global_positions(self) ==
    [i \in DOMAIN self.element_positions |->
        <<RAdd(self.element_positions[i][1], self.position[1]),
          RAdd(self.element_positions[i][2], self.position[2])>>]

steering_delay(self) ==
    RMul(RMul(self.k, self.distance), Sin(Radians(self._steering_angle)))

\* calculate_field_contribution at one grid point (gx, gy).  The phase of
\* element i is k_vec[i] * R + steering_phases[i] with R the distance from the
\* element to the point; its sine is taken at the phase rounded down to a
\* multiple of pi/4, which is where the model can evaluate it.  The value is
\* twice the field, as <<a, b>> for a + b sqrt(2).  For k_vec >= 0.
field_at(self, gx, gy) ==
    LET global_pos == get_global_positions(self)
        delay_rad == steering_delay(self)
        term(i) ==
            LET dx == RSub(gx, global_pos[i][1])
                dy == RSub(gy, global_pos[i][2])
                R2 == RAdd(RMul(dx, dx), RMul(dy, dy))
                k4 == RMul(R(4), RMul(self.k, self.freq_multipliers[i]))
                steering4 == RMul(R(-4 * (i - 1)), delay_rad)
            IN  TwiceSinEighth(FloorSqrtPlus(RMul(RMul(k4, k4), R2), steering4))
    IN  SSum([i \in 1..self.num_elements |-> term(i)])

calculate_field_contribution(self, grid_x, grid_y) ==
    [r \in DOMAIN grid_x |-> [c \in DOMAIN grid_x[r] |->
        field_at(self, grid_x[r][c], grid_y[r][c])]]

\* The polar coordinates (r_elem, theta_elem / pi) of an element on an axis.
OnAxis(pos) == pos[1] = RZero \/ pos[2] = RZero
r_elem(pos) == IF pos[2] = RZero THEN RAbs(pos[1]) ELSE RAbs(pos[2])
theta_elem(pos) ==
    IF pos[2] = RZero
    THEN (IF RLess(pos[1], RZero) THEN R(1) ELSE R(0))
    ELSE (IF RLess(pos[2], RZero) THEN Rat(-1, 2) ELSE Rat(1, 2))

\* phase_term with the steering phase subtracted instead of added
phase_term_minus(self, i, az) ==
    LET pos == self.element_positions[i]
        k_vec == RMul(self.k, self.freq_multipliers[i])
    IN  RSub(RNeg(RMul(RMul(k_vec, r_elem(pos)), Cos(RSub(az, theta_elem(pos))))),
             RMul(R(-(i - 1)), steering_delay(self)))

\* phase_term / pi of element i at azimuth az (az is azimuth_rad / pi)
phase_term(self, i, az) ==
    LET pos == self.element_positions[i]
        k_vec == RMul(self.k, self.freq_multipliers[i])
    IN  RAdd(RNeg(RMul(RMul(k_vec, r_elem(pos)), Cos(RSub(az, theta_elem(pos))))),
             RMul(R(-(i - 1)), steering_delay(self)))

\* Where the model can evaluate get_beam_profile: every element on an axis,
\* the sines and cosines rational and every phase a multiple of pi/4.
ProfileExact(self, start_angle, end_angle, points) ==
    /\ HasExactSine(Radians(self._steering_angle))
    /\ \A i \in 1..self.num_elements : OnAxis(self.element_positions[i])
    /\ \A j \in 1..points :
          LET az == Linspace(Radians(start_angle), Radians(end_angle), points)[j]
          IN  \A i \in 1..self.num_elements :
                /\ HasExactSine(RAdd(RSub(az, theta_elem(self.element_positions[i])), Rat(1, 2)))
                /\ RIsInt(RMul(R(4), phase_term(self, i, az)))

\* |z|^2 of the sum z of exp(j phase) over the elements, times 4
beam_magnitude_sq(self, az) ==
    LET m(i) == RFloor(RMul(R(4), phase_term(self, i, az)))
        re == SSum([i \in 1..self.num_elements |-> TwiceCosEighth(m(i))])
        im == SSum([i \in 1..self.num_elements |-> TwiceSinEighth(m(i))])
    IN  SAdd(SMul(re, re), SMul(im, im))

\* get_beam_profile: the sampled azimuths in degrees and, for each, the
\* square of the magnitude (times 4, as <<a, b>> for a + b sqrt(2)).
get_beam_profile(self, start_angle, end_angle, points) ==
    LET azimuth_rad == Linspace(Radians(start_angle), Radians(end_angle), points)
    IN  [angles_deg |-> [j \in 1..points |-> Degrees(azimuth_rad[j])],
         magnitude_sq |-> [j \in 1..points |-> beam_magnitude_sq(self, azimuth_rad[j])]]

(***************************************************************************)
(* class BeamSystem                                                         *)
(***************************************************************************)
BeamSystem_init(resolution, min_x, max_x, min_y, max_y) ==
    LET x == Linspace(min_x, max_x, resolution)
        y == Linspace(min_y, max_y, resolution)
    IN  [resolution |-> resolution,
         bounds |-> <<min_x, max_x, min_y, max_y>>,
         arrays |-> <<>>,
         X |-> [r \in 1..resolution |-> [c \in 1..resolution |-> x[c]]],
         Y |-> [r \in 1..resolution |-> [c \in 1..resolution |-> y[r]]],
         total_field |-> [r \in 1..resolution |-> [c \in 1..resolution |-> SZero]]]

\* add_array also clearing the field.
add_array_clearing_field(self, array) ==
    [self EXCEPT !.arrays = Append(self.arrays, array),
                 !.total_field =
                    [r \in DOMAIN self.total_field |->
                        [c \in DOMAIN self.total_field[r] |-> <<0, 0>>]]]

\* BeamSystem.add_array
add_array(self, array) == [self EXCEPT !.arrays = Append(self.arrays, array)]

FieldAdd(f, g) == [r \in DOMAIN f |-> [c \in DOMAIN f[r] |-> SAdd(f[r][c], g[r][c])]]

\* simulate without the reset of total_field
RECURSIVE simulate_loop(_, _, _)
simulate_loop(self, objects, n) ==
    IF n > Len(self.arrays) THEN self
    ELSE simulate_loop(
            [self EXCEPT !.total_field =
                FieldAdd(self.total_field,
                         calculate_field_contribution(objects[self.arrays[n]], self.X, self.Y))],
            objects, n + 1)

simulate_no_reset(self, objects) == simulate_loop(self, objects, 1)

\* simulate: total_field.fill(0), then the contribution of every array of
\* self.arrays in order; objects are the PhasedArray objects by reference.
simulate(self, objects) ==
    simulate_loop(
        [self EXCEPT !.total_field =
            [r \in DOMAIN self.total_field |-> [c \in DOMAIN self.total_field[r] |-> SZero]]],
        objects, 1)

(***************************************************************************)
(* The inputs the operations are tried with.                                *)
(***************************************************************************)
ElementCounts == 1..MaxElements
Geometries == {"linear", "curved"}
Curvatures == {R(0), R(1)}
SpacingFactors == {Rat(1, 2), R(1)}
ConstructorFrequencies == {R(-100000000), R(0), R(600000000)}
SetterFrequencies == {R(-100000000), R(0), R(300000000)}
Origin == <<R(0), R(0)>>

Config(n, g, c, f, p, sf) ==
    [num_elements |-> n, geometry |-> g, curvature |-> c, frequency |-> f,
     position |-> p, spacing_factor |-> sf]

Configs(frequencies) ==
    {Config(n, g, c, f, Origin, sf) :
        n \in ElementCounts, g \in Geometries, c \in Curvatures,
        f \in frequencies, sf \in SpacingFactors}

\* dicts as the sequence of their (key, value) items, in insertion order
OffsetMaps ==
    { <<>>,
      << <<(<<"0">>), [x |-> Rat(1, 4)]>>,
         <<(<<"-", "1">>), [x |-> R(1), y |-> R(1)]>> >>,
      << <<(<<"1">>), [x |-> Rat(1, 4), y |-> Rat(1, 2)]>>,
         <<(<<"7">>), [y |-> R(1)]>>,
         <<(<<"0", "1">>), [y |-> Rat(1, 2)]>> >> }

FreqMaps ==
    { << <<(<<"0">>), R(2)>>, <<(<<"-", "1">>), R(3)>> >>,
      << <<(<<"1">>), Rat(1, 2)>>, <<(<<"7">>), R(2)>>, <<(<<"0", "1">>), R(2)>> >> }

SystemOffsetMaps == { << <<(<<"1">>), [x |-> Rat(1, 4), y |-> Rat(1, 2)]>> >> }
SystemFreqMaps == { << <<(<<"0">>), R(2)>>, <<(<<"-", "1">>), R(3)>> >> }

(***************************************************************************)
(* The operations.  heap holds the PhasedArray objects made so far; last is *)
(* the call just made and pre the heap it was made on.                      *)
(***************************************************************************)
Call(op, id, arg, raised) == [op |-> op, id |-> id, arg |-> arg, raised |-> raised]

Construct(configs) ==
    /\ steps < MaxSteps
    /\ heap = <<>>
    /\ \E c \in configs :
          LET r == PhasedArray_init(c.num_elements, c.geometry, c.curvature,
                                    c.frequency, c.position, c.spacing_factor)
          IN  /\ heap' = IF r.raised = "none" THEN Append(heap, r.self) ELSE heap
              /\ last' = Call("__init__", Len(heap) + 1, c, r.raised)
    /\ pre' = [heap |-> heap, sys |-> sys]
    /\ steps' = steps + 1
    /\ UNCHANGED <<sys, profile>>

SetFrequency(frequencies) ==
    /\ steps < MaxSteps
    /\ \E id \in DOMAIN heap, val \in frequencies :
          LET r == frequency_set(heap[id], val)
          IN  /\ heap' = [heap EXCEPT ![id] = r.self]
              /\ last' = Call("frequency", id, val, r.raised)
    /\ pre' = [heap |-> heap, sys |-> sys]
    /\ steps' = steps + 1
    /\ UNCHANGED <<sys, profile>>

\* spacing_factor, geometry and curvature are plain attributes
SetSpacingFactor ==
    /\ steps < MaxSteps
    /\ \E id \in DOMAIN heap, val \in SpacingFactors :
          /\ heap' = [heap EXCEPT ![id].spacing_factor = val]
          /\ last' = Call("spacing_factor", id, val, "none")
    /\ pre' = [heap |-> heap, sys |-> sys]
    /\ steps' = steps + 1
    /\ UNCHANGED <<sys, profile>>

SetGeometry ==
    /\ steps < MaxSteps
    /\ \E id \in DOMAIN heap, val \in Geometries :
          /\ heap' = [heap EXCEPT ![id].geometry = val]
          /\ last' = Call("geometry", id, val, "none")
    /\ pre' = [heap |-> heap, sys |-> sys]
    /\ steps' = steps + 1
    /\ UNCHANGED <<sys, profile>>

SetCurvature ==
    /\ steps < MaxSteps
    /\ \E id \in DOMAIN heap, val \in Curvatures :
          /\ heap' = [heap EXCEPT ![id].curvature = val]
          /\ last' = Call("curvature", id, val, "none")
    /\ pre' = [heap |-> heap, sys |-> sys]
    /\ steps' = steps + 1
    /\ UNCHANGED <<sys, profile>>

SetSteeringAngle(angles) ==
    /\ steps < MaxSteps
    /\ \E id \in DOMAIN heap, val \in angles :
          /\ heap' = [heap EXCEPT ![id] = steering_angle_set(heap[id], val)]
          /\ last' = Call("steering_angle", id, val, "none")
    /\ pre' = [heap |-> heap, sys |-> sys]
    /\ steps' = steps + 1
    /\ UNCHANGED <<sys, profile>>

ApplyOffsets(maps) ==
    /\ steps < MaxSteps
    /\ \E id \in DOMAIN heap, offsets \in maps :
          /\ heap' = [heap EXCEPT ![id] = apply_offsets(heap[id], offsets)]
          /\ last' = Call("apply_offsets", id, offsets, "none")
    /\ pre' = [heap |-> heap, sys |-> sys]
    /\ steps' = steps + 1
    /\ UNCHANGED <<sys, profile>>

SetFrequencyMultipliers(maps) ==
    /\ steps < MaxSteps
    /\ \E id \in DOMAIN heap, freq_map \in maps :
          /\ heap' = [heap EXCEPT ![id] = set_frequency_multipliers(heap[id], freq_map)]
          /\ last' = Call("set_frequency_multipliers", id, freq_map, "none")
    /\ pre' = [heap |-> heap, sys |-> sys]
    /\ steps' = steps + 1
    /\ UNCHANGED <<sys, profile>>

GetBeamProfile(samplings) ==
    /\ steps < MaxSteps
    /\ \E id \in DOMAIN heap, s \in samplings :
          /\ ProfileExact(heap[id], s[1], s[2], s[3])
          /\ profile' = get_beam_profile(heap[id], s[1], s[2], s[3])
          /\ last' = Call("get_beam_profile", id, s, "none")
    /\ pre' = [heap |-> heap, sys |-> sys]
    /\ steps' = steps + 1
    /\ UNCHANGED <<heap, sys>>

AddArray ==
    /\ steps < MaxSteps
    /\ Len(sys.arrays) < MaxArrays
    /\ \E id \in DOMAIN heap :
          /\ sys' = add_array(sys, id)
          /\ last' = Call("add_array", id, id, "none")
    /\ pre' = [heap |-> heap, sys |-> sys]
    /\ steps' = steps + 1
    /\ UNCHANGED <<heap, profile>>

Simulate ==
    /\ steps < MaxSteps
    /\ sys' = simulate(sys, heap)
    /\ last' = Call("simulate", 0, <<>>, "none")
    /\ pre' = [heap |-> heap, sys |-> sys]
    /\ steps' = steps + 1
    /\ UNCHANGED <<heap, profile>>

(***************************************************************************)
(* Spec: the life of one PhasedArray, from its construction on.             *)
(***************************************************************************)
NoCall == Call("none", 0, <<>>, "none")

NoProfile == [angles_deg |-> <<>>, magnitude_sq |-> <<>>]
Grid == BeamSystem_init(GridResolution, R(-1), R(1), R(0), R(2))

Init ==
    /\ heap = <<>>
    /\ sys = Grid
    /\ profile = NoProfile
    /\ last = NoCall
    /\ pre = [heap |-> heap, sys |-> sys]
    /\ steps = 0

Next ==
    \/ Construct(Configs(ConstructorFrequencies))
    \/ SetFrequency(SetterFrequencies)
    \/ SetSpacingFactor
    \/ SetGeometry
    \/ SetCurvature
    \/ SetSteeringAngle({R(180), R(-30)})
    \/ ApplyOffsets(OffsetMaps)
    \/ SetFrequencyMultipliers(FreqMaps)

Spec == Init /\ [][Next]_vars

(***************************************************************************)
(* SpecValid: the same life, of a PhasedArray constructed with a positive   *)
(* frequency.                                                               *)
(***************************************************************************)
ValidNext ==
    \/ Construct(Configs({R(600000000)}))
    \/ SetFrequency(SetterFrequencies)
    \/ SetSpacingFactor
    \/ SetGeometry
    \/ SetCurvature
    \/ SetSteeringAngle({R(180), R(-30)})
    \/ ApplyOffsets(OffsetMaps)
    \/ SetFrequencyMultipliers(FreqMaps)

SpecValid == Init /\ [][ValidNext]_vars

(***************************************************************************)
(* Properties of one PhasedArray.                                           *)
(***************************************************************************)
Accepted(op) == last.op = op /\ last.raised = "none" /\ last.id \in DOMAIN heap
Positive(val) == RLess(RZero, val)

\* The derived constants as the configuration of self determines them.
InLockstep(self) ==
    /\ self.wavelength = RDiv(R(propagation_speed), self._frequency)
    /\ self.k = RDiv(R(TwoPiOverPi), self.wavelength)
    /\ self.distance = RMul(self.wavelength, self.spacing_factor)

\* C1: in every reachable state of every PhasedArray, wavelength =
\* propagation_speed / frequency, k = 2 pi / wavelength and distance =
\* wavelength * spacing_factor.
C1_DerivedInLockstep ==
    \A id \in DOMAIN heap : Positive(heap[id]._frequency) => InLockstep(heap[id])

\* C2: right after a change of geometry, curvature, frequency or
\* spacing_factor, element_positions are the positions generated for the
\* current geometry, curvature, frequency, spacing_factor and num_elements.
C2_PositionsRegenerated ==
    \A op \in {"geometry", "curvature", "frequency", "spacing_factor"} :
        (Accepted(op) /\ heap # pre.heap /\ Positive(heap[last.id]._frequency)) =>
            heap[last.id].element_positions =
                _generate_local_positions(_recalculate_physics(heap[last.id]))

\* C4: a frequency assignment of val <= 0 raises ValueError and leaves the
\* object as it was; an assignment of val > 0 does not raise.
C4_RejectedFrequencyChangesNothing ==
    last.op = "frequency" =>
        IF Positive(last.arg)
        THEN last.raised = "none" /\ heap[last.id]._frequency = last.arg
        ELSE last.raised = "ValueError" /\ heap = pre.heap

C4_Witness ==
    /\ last.op = "frequency" /\ ~Positive(last.arg) /\ last.raised = "ValueError"
    /\ heap[last.id]._frequency # last.arg
    /\ heap[last.id].element_positions # _generate_local_positions(heap[last.id])

\* C5: constructing a PhasedArray with frequency <= 0 raises ValueError, and
\* no PhasedArray has a frequency <= 0.
C5_ConstructorRejectsFrequency ==
    /\ (last.op = "__init__" /\ ~Positive(last.arg.frequency)) => last.raised = "ValueError"
    /\ \A id \in DOMAIN heap : Positive(heap[id]._frequency)

\* The sum of the offsets that the entries of a dict give to element idx.
RECURSIVE OffsetSum(_, _, _)
OffsetSum(offsets, idx, name) ==
    IF offsets = <<>> THEN RZero
    ELSE RAdd(IF ParseInt(Head(offsets)[1]) = idx
              THEN OffsetGet(Head(offsets)[2], name) ELSE RZero,
              OffsetSum(Tail(offsets), idx, name))

InRangeKeys(items, n) == {j \in DOMAIN items : ParseInt(items[j][1]) \in 0..(n - 1)}

\* C6: apply_offsets adds to element idx the (x, y) of every entry whose key
\* parses to idx, for 0 <= idx < num_elements; it ignores every other entry
\* without raising and changes nothing else; apply_offsets({}) changes nothing.
C6_ApplyOffsetsFrame ==
    last.op = "apply_offsets" =>
        LET old == pre.heap[last.id]
            new == heap[last.id]
        IN  /\ last.raised = "none"
            /\ new = [old EXCEPT !.element_positions = new.element_positions]
            /\ \A id \in DOMAIN heap : id # last.id => heap[id] = pre.heap[id]
            /\ DOMAIN new.element_positions = 1..old.num_elements
            /\ \A i \in 1..old.num_elements :
                  new.element_positions[i] =
                      <<RAdd(old.element_positions[i][1], OffsetSum(last.arg, i - 1, "x")),
                        RAdd(old.element_positions[i][2], OffsetSum(last.arg, i - 1, "y"))>>
            /\ \A i \in 1..old.num_elements :
                  (\A j \in InRangeKeys(last.arg, old.num_elements) :
                      ParseInt(last.arg[j][1]) # i - 1)
                  => new.element_positions[i] = old.element_positions[i]
            /\ last.arg = <<>> => heap = pre.heap

C6_Witness ==
    /\ last.op = "apply_offsets"
    /\ \E j, l \in DOMAIN last.arg :
          /\ ParseInt(last.arg[j][1]) \in 0..(heap[last.id].num_elements - 1)
          /\ ParseInt(last.arg[l][1]) < 0
    /\ \E i, m \in 1..heap[last.id].num_elements :
          /\ heap[last.id].element_positions[i] # pre.heap[last.id].element_positions[i]
          /\ heap[last.id].element_positions[m] = pre.heap[last.id].element_positions[m]

\* The positions a linear array of the same parameters is constructed with.
LinearTwin(a) ==
    PhasedArray_init(a.num_elements, "linear", a.curvature, a.frequency,
                     a.position, a.spacing_factor).self.element_positions

CurvedFlat == Accepted("__init__") /\ last.arg.geometry = "curved" /\ last.arg.curvature = RZero

\* C7 as stated: a curved array of curvature 0 is constructed with the
\* element positions of the linear array of the same parameters.
C7_CurvedFlatEqualsLinear ==
    CurvedFlat => heap[last.id].element_positions = LinearTwin(last.arg)

\* C7 as amended: a curved array of curvature 0 has the x of the linear array
\* of the same parameters in every element, and its y is the baseline 0.2
\* where the linear array has y = 0.
C7_CurvedFlatIsLinearOnBaseline ==
    CurvedFlat =>
        /\ Len(heap[last.id].element_positions) = Len(LinearTwin(last.arg))
        /\ \A i \in DOMAIN heap[last.id].element_positions :
              /\ heap[last.id].element_positions[i][1] = LinearTwin(last.arg)[i][1]
              /\ heap[last.id].element_positions[i][2] = baseline_y
              /\ LinearTwin(last.arg)[i][2] = RZero

C7_Witness == CurvedFlat /\ heap[last.id].num_elements >= 2

\* The value the last entry of a dict with a key parsing to idx gives, or
\* old when there is none.
RECURSIVE LastValue(_, _, _)
LastValue(items, idx, old) ==
    IF items = <<>> THEN old
    ELSE LastValue(Tail(items), idx,
                   IF ParseInt(Head(items)[1]) = idx THEN Head(items)[2] ELSE old)

\* C10: set_frequency_multipliers sets the multiplier of element idx to the
\* value of the entry whose key parses to idx, for 0 <= idx < num_elements;
\* it ignores every other entry without raising and changes nothing else.
C10_SetMultipliersFrame ==
    last.op = "set_frequency_multipliers" =>
        LET old == pre.heap[last.id]
            new == heap[last.id]
        IN  /\ last.raised = "none"
            /\ new = [old EXCEPT !.freq_multipliers = new.freq_multipliers]
            /\ \A id \in DOMAIN heap : id # last.id => heap[id] = pre.heap[id]
            /\ DOMAIN new.freq_multipliers = 1..old.num_elements
            /\ \A i \in 1..old.num_elements :
                  new.freq_multipliers[i] = LastValue(last.arg, i - 1, old.freq_multipliers[i])
            /\ \A i \in 1..old.num_elements :
                  (\A j \in InRangeKeys(last.arg, old.num_elements) :
                      ParseInt(last.arg[j][1]) # i - 1)
                  => new.freq_multipliers[i] = old.freq_multipliers[i]

C10_Witness ==
    /\ last.op = "set_frequency_multipliers"
    /\ \E j, l \in DOMAIN last.arg :
          /\ ParseInt(last.arg[j][1]) \in 0..(heap[last.id].num_elements - 1)
          /\ ParseInt(last.arg[l][1]) < 0
    /\ \E i, m \in 1..heap[last.id].num_elements :
          /\ heap[last.id].freq_multipliers[i] # pre.heap[last.id].freq_multipliers[i]
          /\ heap[last.id].freq_multipliers[m] = R(1)

\* The (x, y) of element i (from 1) of n elements spaced by distance, as the
\* geometry and the curvature place it.
BasePosition(i, n, distance, geometry, curvature) ==
    LET span == RMul(R(n - 1), distance)
        x == RAdd(RNeg(RDiv(span, R(2))), RMul(R(i - 1), distance))
    IN  <<x, IF geometry = "curved"
             THEN RAdd(Rat(1, 5), RMul(curvature, RMul(x, x)))
             ELSE RZero>>

\* C11: after an assignment of a frequency > 0, whatever offsets were
\* applied before it, the element positions are the positions generated from
\* geometry, curvature and spacing alone: no offset is kept or re-applied.
C11_FrequencyDiscardsOffsets ==
    (Accepted("frequency") /\ Positive(last.arg)) =>
        LET self == heap[last.id]
        IN  /\ InLockstep(self)
            /\ self.element_positions = _generate_local_positions(self)
            /\ DOMAIN self.element_positions = 1..self.num_elements
            /\ \A i \in 1..self.num_elements :
                  self.element_positions[i] =
                      BasePosition(i, self.num_elements,
                                   RMul(RDiv(R(propagation_speed), last.arg),
                                        self.spacing_factor),
                                   self.geometry, self.curvature)

\* a frequency assignment to an array whose last call was an apply_offsets
\* that moved an element in x
C11_Witness ==
    /\ Accepted("frequency") /\ Positive(last.arg)
    /\ Positive(pre.heap[last.id]._frequency) /\ InLockstep(pre.heap[last.id])
    /\ \E i \in 1..heap[last.id].num_elements :
          /\ pre.heap[last.id].element_positions[i][1] #
                _generate_local_positions(pre.heap[last.id])[i][1]
          /\ heap[last.id].element_positions[i] =
                _generate_local_positions(heap[last.id])[i]

\* The last call generated the element positions of its array.
Generated == Accepted("__init__") \/ (Accepted("frequency") /\ Positive(last.arg))

\* C13: the generated positions of a linear array have y = 0 whatever the
\* curvature; those of a curved array have y = 0.2 + curvature * x^2; in both
\* the x are num_elements values evenly spaced from -span/2 to span/2, with
\* span = (num_elements - 1) * distance.
C13_GeometryGatesCurvature ==
    Generated =>
        LET self == heap[last.id]
            n == self.num_elements
            pos == self.element_positions
            span == RMul(R(n - 1), self.distance)
        IN  /\ DOMAIN pos = 1..n
            /\ pos[1][1] = RNeg(RDiv(span, R(2)))
            /\ pos[n][1] = RDiv(span, R(2))
            /\ \A i \in 1..(n - 1) : RSub(pos[i + 1][1], pos[i][1]) = self.distance
            /\ self.geometry = "linear" => \A i \in 1..n : pos[i][2] = RZero
            /\ self.geometry = "curved" =>
                  \A i \in 1..n :
                      pos[i][2] = RAdd(Rat(1, 5),
                                       RMul(self.curvature, RMul(pos[i][1], pos[i][1])))

\* a linear array of curvature > 0 with elements off the origin
C13_Witness ==
    /\ Accepted("__init__")
    /\ heap[last.id].geometry = "linear"
    /\ Positive(heap[last.id].curvature)
    /\ heap[last.id].num_elements = 3
    /\ heap[last.id].element_positions[1][1] # RZero
    /\ \A i \in 1..3 : heap[last.id].element_positions[i][2] = RZero

\* C14: an assignment of a frequency > 0 leaves every frequency multiplier
\* as it was, and in every state element_positions and freq_multipliers both
\* have num_elements entries.
C14_FrequencyKeepsMultipliers ==
    /\ (Accepted("frequency") /\ Positive(last.arg)) =>
          /\ heap[last.id].freq_multipliers = pre.heap[last.id].freq_multipliers
          /\ heap[last.id].num_elements = pre.heap[last.id].num_elements
    /\ \A id \in DOMAIN heap :
          /\ DOMAIN heap[id].element_positions = 1..heap[id].num_elements
          /\ DOMAIN heap[id].freq_multipliers = 1..heap[id].num_elements

\* a frequency assignment that changes the frequency of an array holding a
\* multiplier other than 1.0
C14_Witness ==
    /\ Accepted("frequency") /\ Positive(last.arg)
    /\ Positive(pre.heap[last.id]._frequency)
    /\ heap[last.id]._frequency # pre.heap[last.id]._frequency
    /\ heap[last.id].element_positions # pre.heap[last.id].element_positions
    /\ \E i \in 1..heap[last.id].num_elements :
          /\ heap[last.id].freq_multipliers[i] # R(1)
          /\ heap[last.id].freq_multipliers[i] = pre.heap[last.id].freq_multipliers[i]

(***************************************************************************)
(* SpecSteer: one assignment of steering_angle, of every whole and half     *)
(* number of degrees up to MaxDegrees either way, to an array whose         *)
(* steering angle was assigned before.                                      *)
(***************************************************************************)
WideAngles == {Rat(n, 2) : n \in (-2 * MaxDegrees)..(2 * MaxDegrees)}

DefaultArray ==
    PhasedArray_init(MaxElements, "linear", R(0), R(600000000), Origin, Rat(1, 2)).self

SteerInit ==
    /\ \E a \in {R(0), R(90), R(180)} : heap = <<steering_angle_set(DefaultArray, a)>>
    /\ sys = Grid
    /\ profile = NoProfile
    /\ last = NoCall
    /\ pre = [heap |-> heap, sys |-> sys]
    /\ steps = 0

SteerNext == steps = 0 /\ SetSteeringAngle(WideAngles)

SpecSteer == SteerInit /\ [][SteerNext]_vars

Congruent360(a, b) == RIsInt(RDiv(RSub(a, b), R(360)))

\* C3 as stated: the stored steering angle is congruent to the assigned value
\* modulo 360 and lies in (-180, 180]; the assignment does not raise.
C3_SteeringInHalfOpenUpper ==
    last.op = "steering_angle" =>
        LET a == heap[last.id]._steering_angle
        IN  /\ last.raised = "none"
            /\ Congruent360(a, last.arg)
            /\ RLess(R(-180), a) /\ RLeq(a, R(180))

\* C3 as amended: the stored steering angle is congruent to the assigned
\* value modulo 360 and lies in [-180, 180), so that 180 and every value
\* congruent to it are stored as -180; the assignment does not raise and
\* changes nothing else.
C3_SteeringInHalfOpenLower ==
    last.op = "steering_angle" =>
        LET a == heap[last.id]._steering_angle
        IN  /\ last.raised = "none"
            /\ Congruent360(a, last.arg)
            /\ RLeq(R(-180), a) /\ RLess(a, R(180))
            /\ Congruent360(last.arg, R(180)) => a = R(-180)
            /\ heap[last.id] = [pre.heap[last.id] EXCEPT !._steering_angle = a]

C3_Witness ==
    /\ last.op = "steering_angle"
    /\ last.arg = R(-540)
    /\ heap[last.id]._steering_angle = R(-180)
    /\ pre.heap[last.id]._steering_angle = R(90)

(***************************************************************************)
(* SpecBeam: a PhasedArray is constructed, steered and configured, and its  *)
(* beam profile is taken, with the angles at which the model evaluates the  *)
(* profile exactly.  A sampling is <<start_angle, end_angle, points>>.      *)
(***************************************************************************)
BeamConfigs ==
    {Config(n, g, R(1), R(1000000000), Origin, sf) :
        n \in ElementCounts \cup {8}, g \in Geometries, sf \in SpacingFactors}

BeamSteerings == {R(0), R(30), R(-30), R(90), R(150)}
BeamOffsetMaps == { << <<(<<"0">>), [x |-> Rat(3, 40)]>> >> }
Samplings == {<<R(0), R(180), 3>>, <<R(0), R(180), 4>>, <<R(60), R(120), 3>>}

BeamNext ==
    \/ Construct(BeamConfigs)
    \/ SetSteeringAngle(BeamSteerings)
    \/ ApplyOffsets(BeamOffsetMaps)
    \/ SetFrequencyMultipliers(SystemFreqMaps)
    \/ GetBeamProfile(Samplings)

SpecBeam == Init /\ [][BeamNext]_vars

\* A linear array with no offsets applied and all multipliers 1.0.
PlainLinear(self) ==
    /\ self.geometry = "linear"
    /\ self.element_positions = _generate_local_positions(self)
    /\ \A i \in DOMAIN self.freq_multipliers : self.freq_multipliers[i] = R(1)

ProfileOf(self) == last.op = "get_beam_profile" /\ self = heap[last.id] /\ PlainLinear(self)

IsPeak(j) == \A l \in DOMAIN profile.magnitude_sq :
                SLeq(profile.magnitude_sq[l], profile.magnitude_sq[j])
\* the magnitude n, as the model holds a magnitude
Magnitude(n) == <<4 * n * n, 0>>
SamplingStep == RDiv(RSub(last.arg[2], last.arg[1]), R(last.arg[3] - 1))
Scenario8(self) ==
    /\ self.num_elements = 8 /\ self.spacing_factor = Rat(1, 2)
    /\ self._steering_angle = R(0) /\ InLockstep(self)

\* C9 as stated: the magnitude of the beam profile of a linear array with no
\* offsets and all multipliers 1.0 has its maximum over the sampled azimuths
\* at an azimuth within one sampling step of the steering angle; for 8
\* elements, spacing_factor 0.5 and steering angle 0 the maximum is at
\* azimuth 0 and equals 8.
C9_PeakAtSteeringAngle ==
    \A id \in DOMAIN heap : ProfileOf(heap[id]) =>
        /\ \E j \in DOMAIN profile.angles_deg :
              /\ IsPeak(j)
              /\ (RLeq(last.arg[1], heap[id]._steering_angle)
                    /\ RLeq(heap[id]._steering_angle, last.arg[2]))
                 => RLeq(RAbs(RSub(profile.angles_deg[j], heap[id]._steering_angle)),
                         SamplingStep)
        /\ (Scenario8(heap[id]) /\ last.arg[1] = R(0)) =>
              \E j \in DOMAIN profile.angles_deg :
                  /\ profile.angles_deg[j] = R(0)
                  /\ IsPeak(j)
                  /\ profile.magnitude_sq[j] = Magnitude(8)

\* C9 as amended: for a linear array with no offsets, all multipliers 1.0 and
\* a steering angle s between -90 and 90, the magnitude at the azimuth 90 + s,
\* when it is sampled, is the maximum over the sampled azimuths and equals
\* num_elements, and no magnitude exceeds num_elements; for 8 elements,
\* spacing_factor 0.5 and steering angle 0 the maximum 8 is at azimuth 90 and
\* the magnitude at azimuth 0 is 0.
C9_PeakAtBroadsidePlusSteering ==
    \A id \in DOMAIN heap : ProfileOf(heap[id]) =>
        LET self == heap[id]
            s == self._steering_angle
        IN  /\ DOMAIN profile.angles_deg = 1..last.arg[3]
            /\ DOMAIN profile.magnitude_sq = 1..last.arg[3]
            /\ \A j \in DOMAIN profile.angles_deg :
                  SLeq(profile.magnitude_sq[j], Magnitude(self.num_elements))
            /\ (RLeq(R(-90), s) /\ RLeq(s, R(90))) =>
                  \A j \in DOMAIN profile.angles_deg :
                      profile.angles_deg[j] = RAdd(R(90), s) =>
                          IsPeak(j) /\ profile.magnitude_sq[j] = Magnitude(self.num_elements)
            /\ Scenario8(self) =>
                  \A j \in DOMAIN profile.angles_deg :
                      /\ profile.angles_deg[j] = R(0) => profile.magnitude_sq[j] = SZero
                      /\ profile.angles_deg[j] = R(90) =>
                            IsPeak(j) /\ profile.magnitude_sq[j] = Magnitude(8)

C9_Witness ==
    \E id \in DOMAIN heap :
        /\ ProfileOf(heap[id])
        /\ Scenario8(heap[id])
        /\ heap[id]._frequency = R(1000000000)
        /\ \E j, l \in DOMAIN profile.angles_deg :
              /\ profile.angles_deg[j] = R(90) /\ profile.magnitude_sq[j] = Magnitude(8)
              /\ profile.angles_deg[l] = R(0) /\ profile.magnitude_sq[l] = SZero

(***************************************************************************)
(* SpecSystem: a BeamSystem over PhasedArray objects made before; arrays    *)
(* are added, the objects are mutated and the field is simulated.           *)
(***************************************************************************)
SystemObjects ==
    <<PhasedArray_init(2, "linear", R(0), R(600000000), Origin, Rat(1, 2)).self,
      PhasedArray_init(3, "curved", R(1), R(300000000), <<R(1), R(0)>>, R(1)).self>>

SysInit ==
    /\ heap = SystemObjects
    /\ \E n \in 0..Len(heap) : sys = [Grid EXCEPT !.arrays = [i \in 1..n |-> i]]
    /\ profile = NoProfile
    /\ last = NoCall
    /\ pre = [heap |-> heap, sys |-> sys]
    /\ steps = 0

SysNext ==
    \/ AddArray
    \/ Simulate
    \/ SetFrequency({R(1000000000)})
    \/ SetSteeringAngle({R(30)})
    \/ ApplyOffsets(SystemOffsetMaps)
    \/ SetFrequencyMultipliers(SystemFreqMaps)

SpecSystem == SysInit /\ [][SysNext]_vars

ZeroField(f) == \A r \in DOMAIN f : \A c \in DOMAIN f[r] : f[r][c] = SZero

\* The sum at grid point (r, c) of the contributions of the arrays n.. of ids.
RECURSIVE ContributionSum(_, _, _, _)
ContributionSum(ids, n, r, c) ==
    IF n > Len(ids) THEN SZero
    ELSE SAdd(field_at(heap[ids[n]], sys.X[r][c], sys.Y[r][c]),
              ContributionSum(ids, n + 1, r, c))

\* C8: after simulate(), total_field is at every grid point the sum of the
\* contributions of the arrays of the system, whatever it held before: the
\* call changes nothing else, a second simulate() gives the same field, and
\* with no arrays the field is zero everywhere.
C8_SimulateIsSumOfContributions ==
    last.op = "simulate" =>
        /\ heap = pre.heap
        /\ sys = [pre.sys EXCEPT !.total_field = sys.total_field]
        /\ DOMAIN sys.total_field = 1..sys.resolution
        /\ \A r \in 1..sys.resolution :
              /\ DOMAIN sys.total_field[r] = 1..sys.resolution
              /\ \A c \in 1..sys.resolution :
                    sys.total_field[r][c] = ContributionSum(sys.arrays, 1, r, c)
        /\ simulate(sys, heap).total_field = sys.total_field
        /\ sys.arrays = <<>> => ZeroField(sys.total_field)

\* simulate() on two arrays over a field that held another, non-zero result
C8_Witness ==
    /\ last.op = "simulate"
    /\ Len(sys.arrays) = 2
    /\ ~ZeroField(pre.sys.total_field)
    /\ ~ZeroField(sys.total_field)
    /\ pre.sys.total_field # sys.total_field

\* The calls that change a PhasedArray.
ArrayMutations == {"frequency", "steering_angle", "apply_offsets", "set_frequency_multipliers"}

\* total_field is not what simulate() would compute now.
FieldIsStale ==
    \E r \in DOMAIN sys.total_field : \E c \in DOMAIN sys.total_field[r] :
        sys.total_field[r][c] # ContributionSum(sys.arrays, 1, r, c)

\* C12: only simulate() changes total_field: add_array changes the list of
\* arrays and nothing else of the system, and a frequency or steering_angle
\* assignment, apply_offsets and set_frequency_multipliers on an array
\* change nothing of the system, so total_field keeps the value the last
\* simulate() gave it.
C12_OnlySimulateChangesField ==
    /\ last.op \in ArrayMutations \cup {"add_array"} =>
          sys.total_field = pre.sys.total_field
    /\ last.op \in ArrayMutations => sys = pre.sys
    /\ last.op = "add_array" =>
          /\ heap = pre.heap
          /\ sys = [pre.sys EXCEPT !.arrays = Append(pre.sys.arrays, last.arg)]
    /\ sys.total_field # pre.sys.total_field => last.op = "simulate"

\* a frequency assignment to an array of the system after a simulate() that
\* gave a non-zero field: the field is kept and is no longer the sum of the
\* contributions
C12_Witness ==
    /\ Accepted("frequency")
    /\ \E n \in DOMAIN sys.arrays : sys.arrays[n] = last.id
    /\ heap # pre.heap
    /\ ~ZeroField(sys.total_field)
    /\ sys.total_field = pre.sys.total_field
    /\ FieldIsStale

====
